---- MODULE Spec2Model ----
(***************************************************************************)
(* Bar tracking and movement metrics of the exercise tracker.              *)
(*                                                                         *)
(* The machines of this module share its variables; each specification     *)
(* runs one of them and keeps the others at rest:                          *)
(*   Spec            the forward pass: one Bar Position Estimator fed the  *)
(*                   frames of one video in order;                         *)
(*   SpecAgg         calculate_velocity_metrics over a trajectory;         *)
(*   SpecReps        _count_reps over a y-sequence;                        *)
(*   SpecAngle       calculate_angle;                                      *)
(*   SpecRepVideo    the pipeline on a video of one rep;                   *)
(*   SpecPair        two videos in process at once;                        *)
(*   SpecPage        the video detail page, the server and the requests;   *)
(*   SpecPlayer      the video player;                                     *)
(*   SpecViewer      the processed video viewer;                           *)
(*   SpecCalibration the calibration step;                                 *)
(*   SpecModal       the weight detection modal;                           *)
(*   SpecUpload      the video upload.                                     *)
(*                                                                         *)
(* Arithmetic.  The program computes in floating point.  Pixel positions   *)
(* are kept here as exact dyadic rationals: a position p is stored as the  *)
(* integer p * Scale, Scale a power of two large enough that alpha = 0.5    *)
(* smoothing is exact for every frame of a video.  Velocities are exact    *)
(* fractions.                                                              *)
(***************************************************************************)
EXTENDS Integers, Sequences, FiniteSets, TLC

VARIABLES
    frame,              \* forward pass: number of the next frame to decode
    smoothed_position,  \* estimator: <<>> (None) or <<x, y>>, scaled by Scale
    trajectory,         \* forward pass: bar_trajectory, the emitted BarPoints
    last,               \* forward pass: what the last processed frame did
    run,                \* observer: the current run of identical raw candidates
    agg_traj,           \* aggregator: the trajectory handed to the second pass
    fps,                \* aggregator: frames per second of the video
    metrics,            \* aggregator: <<>> or the result of the second pass
    y_positions,        \* rep counter: the y-sequence handed to _count_reps
    reps,               \* rep counter: <<>> or <<estimated_reps>>
    angle_args,         \* angle calculator: <<>> or the landmarks <<p1, p2, p3>>
    angle_result,       \* angle calculator: <<>> or <<what calculate_angle returned>>
    stroke,             \* rep video: <<>> or the stroke the lifter's wrists trace
    pair,               \* two videos: <<>> or the pipeline of each of the videos
    db_status,          \* server: the status column of the video's row
    req_sent,           \* network: process requests on their way to the server
    req_total,          \* network: process requests sent since the page opened
    responses,          \* network: answers to process requests on their way back
    video_data,         \* detail page: status in the data of the ['video'] query
    video_fetch,        \* detail page: "idle" or what started the fetch in flight
    poll_timer,         \* detail page: the refetch interval in force, 0 for none
    prev_status,        \* detail page: prevStatusRef.current
    observed,           \* detail page: the statuses the page has rendered, in order
    invalidations,      \* detail page: invalidations of the dependent queries
    show_calibration,   \* detail page: showCalibration
    is_pending,         \* detail page: processVideo.isPending
    page_version,       \* detail page: which of the two versions of the page runs
    dep_fetch,          \* detail page: a fetch of the dependent queries is in flight
    dep_data,           \* detail page: data of the dependent queries
    paused,             \* video player: video.paused of the video element
    animationFrameId,   \* video player: 0 or the effect run whose rafLoop is scheduled
    effect_run,         \* video player: number of the effect run whose listeners are attached
    current_time,       \* video player: video.currentTime, in frames
    reported,           \* video player: <<>> or the last call of a time callback
    view_mode,          \* viewer: viewMode of ProcessedVideoViewer
    overlay_available,  \* viewer: an overlayVideoUrl is passed
    has_tracking,       \* viewer: hasTrackingData
    clicked,            \* viewer: the modes of the buttons clicked, in order
    cal_state,          \* calibration step: state
    frameNumber,        \* calibration step: frameNumber
    poseBackend,        \* calibration step: poseBackend
    cal_cache,          \* calibration step: data of the calibration query, by query key
    cal_fetching,       \* calibration step: the query of the current key is being fetched
    cal_error,          \* calibration step: the query of the current key holds an error
    modal_open,         \* weight modal: the open prop
    modal_video,        \* weight modal: the videoId prop
    step,               \* weight modal: step
    result,             \* weight modal: <<>> (null) or the result set by a run
    detections,         \* weight modal: the runs of runDetection started, in order
    session,            \* weight modal: number of the current opening of the modal
    notified,           \* weight modal: the calls of onDetectionComplete, in order
    upload_version,     \* upload: which of the two versions of VideoUpload runs
    file,               \* upload: a file is selected
    selectedExerciseType,\* upload: an exercise type is selected (second version)
    uploadProgress,     \* upload: uploadProgress
    interval,           \* upload: the progress interval is running
    mutation,           \* upload: phase of uploadMutation
    attempts,           \* upload: calls of uploadMutation.mutate so far
    stored,             \* upload: files stored in the bucket
    rows,               \* upload: status of the rows inserted into videos
    navigated,          \* upload: router.push to the video page was called
    settled             \* upload: <<>> or what the last settled mutation left

vars == <<frame, smoothed_position, trajectory, last, run,
          agg_traj, fps, metrics, y_positions, reps,
          angle_args, angle_result, stroke, pair,
          db_status, req_sent, req_total, responses, video_data, video_fetch,
          poll_timer, prev_status, observed, invalidations, show_calibration,
          is_pending, page_version, dep_fetch, dep_data,
          paused, animationFrameId, effect_run, current_time, reported,
          view_mode, overlay_available, has_tracking, clicked,
          cal_state, frameNumber, poseBackend, cal_cache, cal_fetching, cal_error,
          modal_open, modal_video, step, result, detections, session, notified,
          upload_version, file, selectedExerciseType, uploadProgress, interval, mutation, attempts, stored, rows, navigated, settled>>

estVars == <<frame, smoothed_position, trajectory, last, run>>
aggVars == <<agg_traj, fps, metrics>>
repVars == <<y_positions, reps>>
angVars == <<angle_args, angle_result>>

\* The variables of the machines that run apart from the video pipeline.
serverVars == <<db_status, req_sent, req_total, responses>>
pageVars == <<video_data, video_fetch, poll_timer, prev_status, observed,
              invalidations, show_calibration, is_pending, page_version, dep_fetch, dep_data>>

\* The variables of the components of the user interface.
playerVars == <<paused, animationFrameId, effect_run, current_time, reported>>
viewerVars == <<view_mode, overlay_available, has_tracking, clicked>>
calVars == <<cal_state, frameNumber, poseBackend, cal_cache, cal_fetching, cal_error>>
modalVars == <<modal_open, modal_video, step, result, detections, session, notified>>
uploadVars == <<upload_version, file, selectedExerciseType, uploadProgress, interval, mutation, attempts, stored, rows, navigated, settled>>
widgetVars == <<playerVars, viewerVars, calVars, modalVars, uploadVars>>
backVars == <<estVars, aggVars, repVars, angVars, stroke, pair, serverVars, pageVars>>
exceptPlayer == <<backVars, viewerVars, calVars, modalVars, uploadVars>>
exceptViewer == <<backVars, playerVars, calVars, modalVars, uploadVars>>
exceptCalibration == <<backVars, playerVars, viewerVars, modalVars, uploadVars>>
exceptModal == <<backVars, playerVars, viewerVars, calVars, uploadVars>>
exceptUpload == <<backVars, playerVars, viewerVars, calVars, modalVars>>
laterVars == <<angVars, stroke, pair, serverVars, pageVars, widgetVars>>

None == <<>>

(***************************************************************************)
(* Bounds and program constants                                            *)
(***************************************************************************)
NumFrames == 3              \* frames of the video fed to one estimator
RepFrames == 10             \* frames of the video that shows one full rep

\* Sub-pixel units per pixel: one binary digit per frame of the longest video.
Scale == 2 ^ (IF NumFrames > RepFrames THEN NumFrames ELSE RepFrames)

VisibilityThreshold == 30   \* 0.3, in hundredths
ExtensionNum == 18          \* FOREARM_EXTENSION_FACTOR = 0.18 = 18 / ExtensionDen
ExtensionDen == 100
AlphaNum == 1               \* alpha = 0.5 = AlphaNum / AlphaDen
AlphaDen == 2
JumpThreshold == 500        \* px

Abs(a) == IF a >= 0 THEN a ELSE -a

\* Python int(): truncation toward zero of the quotient a / b, b > 0.
Trunc(a, b) == IF a >= 0 THEN a \div b ELSE -((-a) \div b)

(***************************************************************************)
(* Inputs of the forward pass: one FramePose per frame.  Coordinates are   *)
(* normalized, in hundredths of the frame dimension; visibility is in      *)
(* hundredths.  Only the four landmarks the estimator reads are kept.      *)
(***************************************************************************)
Video == [width |-> 1000, height |-> 1000]

Visibilities == {29, 30}    \* just below and exactly at the threshold

WristYs == {10, 40, 90}     \* 100 px, 400 px, 900 px

Landmark(x, y, v) == [x |-> x, y |-> y, visibility |-> v]

\* The lifter's arms: wrists 40 and 60 across, each elbow a tenth of the
\* frame below and slightly outside its wrist.
Poses ==
    { [left_wrist  |-> Landmark(40, wy, vlw),
       right_wrist |-> Landmark(60, wy, vrw),
       left_elbow  |-> Landmark(35, wy + 10, vle),
       right_elbow |-> Landmark(65, wy + 10, vre)] :
         wy \in WristYs, vlw \in Visibilities, vrw \in Visibilities,
         vle \in Visibilities, vre \in Visibilities }

(***************************************************************************)
(* Bar Position Estimator                                                  *)
(***************************************************************************)
Visible(lm) == lm.visibility >= VisibilityThreshold

\* pixel = normalized * frame_dimension
ToPixel(lm) == << (lm.x * Video.width) \div 100, (lm.y * Video.height) \div 100 >>

\* _estimate_grip_from_forearm: extend the forearm past the wrist.
EstimateGripFromForearm(elbow_px, wrist_px) ==
    << wrist_px[1] + Trunc((wrist_px[1] - elbow_px[1]) * ExtensionNum, ExtensionDen),
       wrist_px[2] + Trunc((wrist_px[2] - elbow_px[2]) * ExtensionNum, ExtensionDen) >>

\* Bar position is the midpoint of the estimated grip positions (floor division).
BarCenter(left_grip, right_grip) ==
    << (left_grip[1] + right_grip[1]) \div 2, (left_grip[2] + right_grip[2]) \div 2 >>

\* Mutant of SelectSource: the elbows are not consulted for the best tier.
SelectSourceWristsOnly(pose) ==
    IF Visible(pose.left_wrist) /\ Visible(pose.right_wrist)
    THEN "forearm_extended"
    ELSE IF Visible(pose.left_wrist) \/ Visible(pose.right_wrist)
         THEN "wrist_fallback"
         ELSE "none"

\* Detection priority: the tier of one frame.
SelectSource(pose) ==
    IF /\ Visible(pose.left_wrist) /\ Visible(pose.right_wrist)
       /\ Visible(pose.left_elbow) /\ Visible(pose.right_elbow)
    THEN "forearm_extended"
    ELSE IF Visible(pose.left_wrist) \/ Visible(pose.right_wrist)
         THEN "wrist_fallback"
         ELSE "none"

\* The raw candidate of one frame, in pixels, or None.
RawCandidate(pose) ==
    LET src == SelectSource(pose)
        lw  == ToPixel(pose.left_wrist)
        rw  == ToPixel(pose.right_wrist)
    IN  CASE src = "forearm_extended" ->
               BarCenter(EstimateGripFromForearm(ToPixel(pose.left_elbow), lw),
                         EstimateGripFromForearm(ToPixel(pose.right_elbow), rw))
          [] src = "wrist_fallback" ->
               IF Visible(pose.left_wrist) /\ Visible(pose.right_wrist)
               THEN BarCenter(lw, rw)
               ELSE IF Visible(pose.left_wrist) THEN lw ELSE rw
          [] OTHER -> None

\* Mutant of IsJump: the threshold is applied to each axis, not to the distance.
IsJumpPerAxis(raw, smoothed) ==
    /\ Abs(raw[1] * Scale - smoothed[1]) > JumpThreshold * Scale
    /\ Abs(raw[2] * Scale - smoothed[2]) > JumpThreshold * Scale

\* The square of a length a >= 0 given in sub-pixel units, in square pixels:
\* whole + part / Scale^2 with 0 <= part < Scale^2 (computed piecewise, the
\* square of the scaled length does not fit a machine integer).
SquareInPixels(a) ==
    LET a1 == a \div Scale
        a0 == a % Scale
        m == 2 * a1 * a0
        low == (m % Scale) * Scale + a0 * a0
    IN  [whole |-> a1 * a1 + m \div Scale + low \div (Scale * Scale),
         part  |-> low % (Scale * Scale)]

\* dx^2 + dy^2 between a raw candidate (pixels) and a position (scaled).
SquaredDistance(raw, smoothed) ==
    LET sx == SquareInPixels(Abs(raw[1] * Scale - smoothed[1]))
        sy == SquareInPixels(Abs(raw[2] * Scale - smoothed[2]))
    IN  [whole |-> sx.whole + sy.whole + (sx.part + sy.part) \div (Scale * Scale),
         part  |-> (sx.part + sy.part) % (Scale * Scale)]

\* Jump detection: the raw candidate (pixels) is more than JumpThreshold
\* pixels from the smoothed position (scaled).
IsJump(raw, smoothed) ==
    LET d2 == SquaredDistance(raw, smoothed)
    IN  \/ d2.whole > JumpThreshold * JumpThreshold
        \/ d2.whole = JumpThreshold * JumpThreshold /\ d2.part > 0

\* Mutant of SmoothedPosition: the weight alpha is applied twice.
SmoothedPositionAlphaSquared(raw, smoothed) ==
    LET dx == raw[1] * Scale - smoothed[1]
        dy == raw[2] * Scale - smoothed[2]
    IN  << smoothed[1] + (AlphaNum * AlphaNum * dx) \div (AlphaDen * AlphaDen),
           smoothed[2] + (AlphaNum * AlphaNum * dy) \div (AlphaDen * AlphaDen) >>

\* Mutant of SmoothedPosition: the old state is dropped, alpha * raw is kept.
SmoothedPositionFromOrigin(raw, smoothed) ==
    << (AlphaNum * raw[1] * Scale) \div AlphaDen,
       (AlphaNum * raw[2] * Scale) \div AlphaDen >>

\* Exponential moving average: smoothed + alpha * (raw - smoothed).
SmoothedPosition(raw, smoothed) ==
    LET dx == raw[1] * Scale - smoothed[1]
        dy == raw[2] * Scale - smoothed[2]
    IN  << smoothed[1] + (AlphaNum * dx) \div AlphaDen,
           smoothed[2] + (AlphaNum * dy) \div AlphaDen >>

\* The smoothing state after a frame with raw candidate raw (or None).
UpdateState(raw, smoothed) ==
    IF raw = None THEN smoothed
    ELSE IF smoothed = None THEN << raw[1] * Scale, raw[2] * Scale >>
    ELSE IF IsJump(raw, smoothed) THEN smoothed
    ELSE SmoothedPosition(raw, smoothed)

\* Mutant of NoCandidatePoint: a frame without a candidate always yields a
\* point, a default-valued "lost" one while there is no history.
NoCandidatePointLost(smoothed, hold) ==
    IF smoothed = None THEN [x |-> 0, y |-> 0, source |-> "lost"]
    ELSE [x |-> smoothed[1], y |-> smoothed[2], source |-> "smoothed_prediction"]

\* What a frame without a raw candidate emits: nothing while there is no
\* smoothing history; with a history the held position is emitted or the frame
\* is omitted (hold is the policy, left open by the design).
NoCandidatePoint(smoothed, hold) ==
    IF smoothed = None \/ ~hold THEN None
    ELSE [x |-> smoothed[1], y |-> smoothed[2], source |-> "smoothed_prediction"]

\* detect_barbell: the new smoothing state and the point of this frame (or None).
DetectBarbell(pose, smoothed, hold) ==
    LET raw == RawCandidate(pose)
        new == UpdateState(raw, smoothed)
    IN  [smoothed |-> new,
         raw      |-> raw,
         rejected |-> raw # None /\ smoothed # None /\ IsJump(raw, smoothed),
         point    |-> IF raw = None THEN NoCandidatePoint(smoothed, hold)
                      ELSE [x |-> new[1], y |-> new[2], source |-> SelectSource(pose)]]

\* The frame number of the frame after frame f.
NextFrame(f) == f + 1

\* Mutant of AppendPoint: a held prediction is appended as a copy of the
\* previous entry's bookkeeping, frame number included.
AppendPointStaleFrame(traj, point, f) ==
    IF point = None THEN traj
    ELSE Append(traj, [x |-> point.x, y |-> point.y,
                       frame |-> IF point.source = "smoothed_prediction" /\ traj # <<>>
                                 THEN traj[Len(traj)].frame ELSE f,
                       source |-> point.source])

\* bar_trajectory after the point of frame f (or nothing) has been added.
\* (timestamp = frame / fps is a function of the frame and is not carried.)
AppendPoint(traj, point, f) ==
    IF point = None THEN traj
    ELSE Append(traj, [x |-> point.x, y |-> point.y, frame |-> f, source |-> point.source])

\* Observer of runs of identical raw candidates fed after initialisation:
\* the candidate, the length of the run, and the smoothed state it started from.
NoRun == [c |-> None, len |-> 0, start |-> None]

NextRun(r, raw, smoothed) ==
    IF raw = None \/ smoothed = None THEN NoRun
    ELSE IF raw = r.c THEN [r EXCEPT !.len = r.len + 1]
    ELSE [c |-> raw, len |-> 1, start |-> smoothed]

EstInit ==
    /\ frame = 0
    /\ smoothed_position = None
    /\ trajectory = <<>>
    /\ last = [pose |-> None, raw |-> None, rejected |-> FALSE, point |-> None,
               before |-> None]
    /\ run = NoRun

AggIdle == agg_traj = <<>> /\ fps = 0 /\ metrics = None
RepIdle == y_positions = <<>> /\ reps = None
AngIdle == angle_args = <<>> /\ angle_result = <<>>
StrokeIdle == stroke = <<>>
PairIdle == pair = <<>>
PageIdle ==
    /\ db_status = "pending" /\ req_sent = 0 /\ req_total = 0 /\ responses = <<>>
    /\ video_data = "undefined" /\ video_fetch = "idle" /\ poll_timer = 0
    /\ prev_status = "undefined" /\ observed = <<>> /\ invalidations = 0
    /\ show_calibration = FALSE /\ is_pending = FALSE /\ page_version = 1
    /\ dep_fetch = FALSE /\ dep_data = "none"

PlayerIdle ==
    /\ paused = TRUE /\ animationFrameId = 0 /\ effect_run = 0
    /\ current_time = 0 /\ reported = <<>>
ViewerIdle ==
    /\ view_mode = "canvas" /\ overlay_available = FALSE /\ has_tracking = FALSE
    /\ clicked = <<>>
CalibrationIdle ==
    /\ cal_state = "loading" /\ frameNumber = 0 /\ poseBackend = "yolo"
    /\ cal_cache = <<>> /\ cal_fetching = FALSE /\ cal_error = FALSE
ModalIdle ==
    /\ modal_open = FALSE /\ modal_video = 1 /\ step = "extracting" /\ result = <<>>
    /\ detections = <<>> /\ session = 0 /\ notified = <<>>
UploadIdle ==
    /\ upload_version = 1 /\ file = FALSE /\ selectedExerciseType = FALSE
    /\ uploadProgress = 0 /\ interval = FALSE /\ mutation = "idle" /\ attempts = 0
    /\ stored = 0 /\ rows = <<>> /\ navigated = FALSE /\ settled = <<>>
WidgetIdle == PlayerIdle /\ ViewerIdle /\ CalibrationIdle /\ ModalIdle /\ UploadIdle

\* The machines that run apart from the video pipeline are at rest.
LaterIdle == AngIdle /\ StrokeIdle /\ PairIdle /\ PageIdle /\ WidgetIdle

\* process_video, one iteration of the frame loop.
ProcessFrame ==
    /\ frame < NumFrames
    /\ \E pose \in Poses, hold \in BOOLEAN :
         LET det == DetectBarbell(pose, smoothed_position, hold) IN
         /\ smoothed_position' = det.smoothed
         /\ trajectory' = AppendPoint(trajectory, det.point, frame)
         /\ last' = [pose |-> pose, raw |-> det.raw, rejected |-> det.rejected,
                     point |-> det.point, before |-> smoothed_position]
         /\ run' = NextRun(run, det.raw, smoothed_position)
    /\ frame' = NextFrame(frame)
    /\ UNCHANGED <<aggVars, repVars, laterVars>>

Init == EstInit /\ AggIdle /\ RepIdle /\ LaterIdle

Next == ProcessFrame

Spec == Init /\ [][Next]_vars

(***************************************************************************)
(* Trajectory Aggregator: calculate_velocity_metrics                       *)
(*                                                                         *)
(* Trajectory points are [frame, x, y] in whole pixels.  A velocity is the *)
(* exact fraction [num, den] in lowest terms with den > 0; den = 0 stands  *)
(* for a division by zero.  speed = sqrt(dx^2 + dy^2) / dt is irrational   *)
(* in general and is carried as its square, speed_sq.                      *)
(***************************************************************************)
MaxTraj == 3                \* points of a trajectory handed to the aggregator

MinRepPoints == 10          \* len(y_positions) < 10: no reps
MinRepDisplacement == 50    \* displacement < 50: no reps
FallbackDisplacement == 100 \* no crossing, displacement > 100: one rep

FpsValues == {10, 30}
FrameNos == {0, 1, 3}
XValues == {0, 200}
YValues == {0, 100, 300}

\* The synthetic descent: y strictly decreasing from `from` to `to`, one point
\* per frame, frames 0 .. frames - 1, on a grid of `step` pixels.
Descent == [frames |-> 10, fps |-> 10, from |-> 100, to |-> 0, step |-> 10]

RECURSIVE Gcd(_, _)
Gcd(a, b) == IF b = 0 THEN a ELSE Gcd(b, a % b)

Frac(n, d) ==
    IF d = 0 THEN [num |-> n, den |-> 0]
    ELSE LET g == Gcd(Abs(n), Abs(d))
             sgn == IF d < 0 THEN -1 ELSE 1
         IN  [num |-> (sgn * n) \div g, den |-> (sgn * d) \div g]

Zero == [num |-> 0, den |-> 1]
FracAbs(a) == [num |-> Abs(a.num), den |-> a.den]
FracLess(a, b) == a.num * b.den < b.num * a.den

Range(seq) == { seq[i] : i \in 1..Len(seq) }

\* max() and min() of a non-empty sequence of fractions or of integers.
FracMax(seq) == CHOOSE v \in Range(seq) : \A w \in Range(seq) : ~FracLess(v, w)
FracMin(seq) == CHOOSE v \in Range(seq) : \A w \in Range(seq) : ~FracLess(w, v)
Max(seq) == CHOOSE v \in Range(seq) : \A w \in Range(seq) : w <= v
Min(seq) == CHOOSE v \in Range(seq) : \A w \in Range(seq) : v <= w

\* sorted(trajectory, key=frame): a stable sort by frame number.
RECURSIVE InsertByFrame(_, _)
InsertByFrame(sorted, p) ==
    IF sorted = <<>> THEN <<p>>
    ELSE IF sorted[Len(sorted)].frame <= p.frame THEN Append(sorted, p)
    ELSE Append(InsertByFrame(SubSeq(sorted, 1, Len(sorted) - 1), p), sorted[Len(sorted)])

RECURSIVE SortedTraj(_)
SortedTraj(traj) ==
    IF traj = <<>> THEN <<>>
    ELSE InsertByFrame(SortedTraj(SubSeq(traj, 1, Len(traj) - 1)), traj[Len(traj)])

\* Mutant of SkipPair: the dt <= 0 test is missing.
SkipPairNever(prev, curr) == FALSE

\* Mutant of SkipPair: only a non-monotonic pair is skipped.
SkipPairNegativeOnly(prev, curr) == curr.frame - prev.frame < 0

\* dt = (curr.frame - prev.frame) / fps; if dt <= 0: continue   (fps > 0)
SkipPair(prev, curr) == curr.frame - prev.frame <= 0

\* Mutant of VerticalVelocity: the y axis is not inverted.
VerticalVelocityNotInverted(dy, df, f) == Frac(dy * f, df)

\* "vertical_velocity": -dy / dt, with dt = df / f
VerticalVelocity(dy, df, f) == Frac((-dy) * f, df)

\* The sample appended for one adjacent pair.
VelocitySample(prev, curr, f) ==
    LET df == curr.frame - prev.frame
        dx == curr.x - prev.x
        dy == curr.y - prev.y
    IN  [frame |-> curr.frame,
         vx |-> Frac(dx * f, df),
         vy |-> Frac(dy * f, df),
         speed_sq |-> Frac((dx * dx + dy * dy) * f * f, df * df),
         vertical_velocity |-> VerticalVelocity(dy, df, f)]

\* The frame-to-frame loop over sorted_traj[1 ..], up to index n.
RECURSIVE Velocities(_, _, _)
Velocities(sorted, f, n) ==
    IF n < 2 THEN <<>>
    ELSE IF SkipPair(sorted[n - 1], sorted[n]) THEN Velocities(sorted, f, n - 1)
    ELSE Append(Velocities(sorted, f, n - 1), VelocitySample(sorted[n - 1], sorted[n], f))

(***************************************************************************)
(* Rep counter: _count_reps                                                *)
(***************************************************************************)
\* Twice mid_y, with mid_y = (min(y_positions) + max(y_positions)) / 2.
MidTwice(ys) == Min(ys) + Max(ys)

\* Mutant of IsBelow: a sample on the midline counts as below it.
IsBelowOrOn(y, mid2) == 2 * y >= mid2

\* y > mid_y
IsBelow(y, mid2) == 2 * y > mid2

\* Mutant of LoopStep: was_below is not carried forward.
LoopStepNoUpdate(st, y, mid2) ==
    [rep_count |-> IF st.was_below /\ ~IsBelow(y, mid2) THEN st.rep_count + 1
                   ELSE st.rep_count,
     was_below |-> st.was_below]

\* One iteration of the loop over y_positions[1:].
LoopStep(st, y, mid2) ==
    [rep_count |-> IF st.was_below /\ ~IsBelow(y, mid2) THEN st.rep_count + 1
                   ELSE st.rep_count,
     was_below |-> IsBelow(y, mid2)]

\* rep_count and was_below after the samples up to index n (n >= 1).
RECURSIVE CrossingLoop(_, _, _)
CrossingLoop(ys, mid2, n) ==
    IF n <= 1 THEN [rep_count |-> 0, was_below |-> IsBelow(ys[1], mid2)]
    ELSE LoopStep(CrossingLoop(ys, mid2, n - 1), ys[n], mid2)

\* Mutant of CountReps: the guard wants both conditions, not either.
CountRepsGuardBoth(ys, displacement, per_px) ==
    IF Len(ys) < MinRepPoints /\ displacement < MinRepDisplacement * per_px THEN 0
    ELSE LET rep_count == CrossingLoop(ys, MidTwice(ys), Len(ys)).rep_count
         IN  IF rep_count > 0 THEN rep_count
             ELSE IF displacement > FallbackDisplacement * per_px THEN 1 ELSE 0

\* Mutant of CountReps: the fallback applies from 100 px on, not above it.
CountRepsFallbackFrom(ys, displacement, per_px) ==
    IF Len(ys) < MinRepPoints \/ displacement < MinRepDisplacement * per_px THEN 0
    ELSE LET rep_count == CrossingLoop(ys, MidTwice(ys), Len(ys)).rep_count
         IN  IF rep_count > 0 THEN rep_count
             ELSE IF displacement >= FallbackDisplacement * per_px THEN 1 ELSE 0

\* _count_reps.  The samples and the displacement are lengths in units of
\* 1 / per_px pixel (whole pixels: per_px = 1); 50 and 100 are pixels.
CountReps(ys, displacement, per_px) ==
    IF Len(ys) < MinRepPoints \/ displacement < MinRepDisplacement * per_px THEN 0
    ELSE LET rep_count == CrossingLoop(ys, MidTwice(ys), Len(ys)).rep_count
         IN  IF rep_count > 0 THEN rep_count
             ELSE IF displacement > FallbackDisplacement * per_px THEN 1 ELSE 0

\* vertical_displacement = max(y) - min(y); 0 for no points.
Displacement(ys) == IF ys = <<>> THEN 0 ELSE Max(ys) - Min(ys)

(***************************************************************************)
(* Output metrics                                                          *)
(***************************************************************************)
\* Mutant of PathVerticality: the ratio is not clamped by min(..., 1.0).
PathVerticalityUnclamped(x_deviation, displacement) ==
    Frac(displacement + 1 - x_deviation, displacement + 1)

\* 1.0 - min(x_deviation / (displacement + 1), 1.0)
PathVerticality(x_deviation, displacement) ==
    IF x_deviation >= displacement + 1 THEN Zero
    ELSE Frac(displacement + 1 - x_deviation, displacement + 1)

\* "peak_eccentric_velocity": abs(min(vertical_vels))
PeakEccentric(vertical_vels) == FracAbs(FracMin(vertical_vels))

\* "peak_concentric_velocity": max(vertical_vels)
PeakConcentric(vertical_vels) == FracMax(vertical_vels)

\* What the aggregator returns when there is no velocity sample.
InsufficientData(velocities, displacement, x_deviation, rep_count) ==
    [peak_concentric_velocity |-> Zero,
     peak_eccentric_velocity  |-> Zero,
     vertical_displacement    |-> displacement,
     horizontal_deviation     |-> x_deviation,
     path_verticality         |-> PathVerticality(x_deviation, displacement),
     estimated_reps           |-> rep_count,
     frame_velocities         |-> velocities]

CalculateVelocityMetrics(traj, f) ==
    LET sorted == SortedTraj(traj)
        velocities == Velocities(sorted, f, Len(sorted))
        vertical_vels == [i \in 1..Len(velocities) |-> velocities[i].vertical_velocity]
        ys == [i \in 1..Len(sorted) |-> sorted[i].y]
        xs == [i \in 1..Len(sorted) |-> sorted[i].x]
        displacement == Displacement(ys)
        x_deviation == Displacement(xs)
        rep_count == CountReps(ys, displacement, 1)
    IN  IF velocities = <<>>
        THEN InsufficientData(velocities, displacement, x_deviation, rep_count)
        ELSE [peak_concentric_velocity |-> PeakConcentric(vertical_vels),
              peak_eccentric_velocity  |-> PeakEccentric(vertical_vels),
              vertical_displacement    |-> displacement,
              horizontal_deviation     |-> x_deviation,
              path_verticality         |-> PathVerticality(x_deviation, displacement),
              estimated_reps           |-> rep_count,
              frame_velocities         |-> velocities]

\* A prefix of the synthetic descent.
IsDescentPrefix(traj) ==
    /\ Len(traj) <= Descent.frames
    /\ \A i \in 1..Len(traj) :
          /\ traj[i].frame = i - 1
          /\ traj[i].x = 0
          /\ traj[i].y \in Descent.to..Descent.from
          /\ i = 1 => traj[i].y = Descent.from
          /\ i > 1 => traj[i].y < traj[i - 1].y
    \* enough room left to reach the end value by the last frame
    /\ traj # <<>> =>
          traj[Len(traj)].y - Descent.to >= (Descent.frames - Len(traj)) * Descent.step

IsDescent(traj) ==
    /\ IsDescentPrefix(traj)
    /\ Len(traj) = Descent.frames
    /\ traj[Len(traj)].y = Descent.to

DescentYs == { Descent.to + k * Descent.step :
                 k \in 0..((Descent.from - Descent.to) \div Descent.step) }

AggInit ==
    /\ agg_traj = <<>>
    /\ fps \in FpsValues
    /\ metrics = None

\* The trajectory buffer receives one more point (any frame number: the
\* aggregator sorts).  Either a short arbitrary trajectory or the descent.
AggAddPoint ==
    /\ metrics = None
    /\ \E f \in FrameNos \cup 0..(Descent.frames - 1), x \in XValues, y \in YValues \cup DescentYs :
         LET new == Append(agg_traj, [frame |-> f, x |-> x, y |-> y]) IN
         /\ \/ /\ Len(new) <= MaxTraj
               /\ f \in FrameNos /\ y \in YValues
            \/ /\ fps = Descent.fps
               /\ IsDescentPrefix(new)
         /\ agg_traj' = new
    /\ UNCHANGED <<fps, metrics>>
    /\ UNCHANGED <<estVars, repVars, laterVars>>

\* The second pass over the completed trajectory.
AggCalculate ==
    /\ metrics = None
    /\ metrics' = CalculateVelocityMetrics(agg_traj, fps)
    /\ UNCHANGED <<agg_traj, fps>>
    /\ UNCHANGED <<estVars, repVars, laterVars>>

EstIdle == EstInit

InitAgg == EstIdle /\ AggInit /\ RepIdle /\ LaterIdle

NextAgg == AggAddPoint \/ AggCalculate

SpecAgg == InitAgg /\ [][NextAgg]_vars

(***************************************************************************)
(* The rep counter on its own, over longer y-sequences                     *)
(***************************************************************************)
MaxYLen == 10               \* samples of a y-sequence handed to _count_reps

\* Each y-sequence takes its values from one of these sets.
YPalettes == { {0, 50, 100}, {0, 120}, {0, 49} }

RepInit ==
    /\ y_positions = <<>>
    /\ reps = None

RepAddY ==
    /\ reps = None
    /\ Len(y_positions) < MaxYLen
    /\ \E pal \in YPalettes : \E y \in pal :
         /\ Range(y_positions) \subseteq pal
         /\ y_positions' = Append(y_positions, y)
    /\ UNCHANGED reps
    /\ UNCHANGED <<estVars, aggVars, laterVars>>

RepCount ==
    /\ reps = None
    /\ reps' = << CountReps(y_positions, Displacement(y_positions), 1) >>
    /\ UNCHANGED y_positions
    /\ UNCHANGED <<estVars, aggVars, laterVars>>

InitReps == EstIdle /\ AggIdle /\ RepInit /\ LaterIdle

NextReps == RepAddY \/ RepCount

SpecReps == InitReps /\ [][NextReps]_vars

(***************************************************************************)
(* The whole pipeline on a video that shows one full rep                   *)
(*                                                                         *)
(* Every frame shows both wrists and both elbows; the wrists move from one *)
(* end of a stroke of 150 px to the other and back, by any steps, with no  *)
(* sideways motion.  After the last frame the aggregator computes the      *)
(* displacement and the rep count of the emitted trajectory (the velocity  *)
(* fields of the report are not carried here).                             *)
(***************************************************************************)
RepVideoFps == 30

\* Heights of the wrists, in hundredths of the frame: 50 px apart, 150 px
\* from the first to the last.
RepWristYs == {40, 45, 50, 55}

RepPose(wy) ==
    [left_wrist  |-> Landmark(40, wy, VisibilityThreshold),
     right_wrist |-> Landmark(60, wy, VisibilityThreshold),
     left_elbow  |-> Landmark(35, wy + 10, VisibilityThreshold),
     right_elbow |-> Landmark(65, wy + 10, VisibilityThreshold)]

\* wy lies between a and b, ends included.
Between(wy, a, b) == (a <= wy /\ wy <= b) \/ (b <= wy /\ wy <= a)

\* The stroke after the frame that shows the wrists at wy.
NextStroke(st, wy) ==
    IF st = <<>>
    THEN << [from |-> wy,
             to |-> IF wy = 40 THEN 55 ELSE 40,
             at |-> wy,
             turned |-> FALSE] >>
    ELSE << [st[1] EXCEPT !.at = wy, !.turned = st[1].turned \/ wy = st[1].to] >>

\* The wrists may be at wy on frame f: the stroke starts at one of its ends,
\* moves to the other end without turning back, reaches it before the last
\* frame, returns without turning back and is home on the last frame.
StrokeAllows(st, f, wy) ==
    IF st = <<>> THEN wy \in {40, 55}
    ELSE LET k == st[1] IN
         IF ~k.turned
         THEN /\ Between(wy, k.at, k.to)
              /\ f >= RepFrames - 2 => wy = k.to
         ELSE /\ Between(wy, k.from, k.at)
              /\ f = RepFrames - 1 => wy = k.from

RepVideoInit ==
    /\ EstInit
    /\ agg_traj = <<>> /\ fps = RepVideoFps /\ metrics = None
    /\ stroke = <<>>

\* process_video, one iteration of the frame loop, on the rep video.
ProcessRepFrame ==
    /\ frame < RepFrames
    /\ \E wy \in RepWristYs :
         LET det == DetectBarbell(RepPose(wy), smoothed_position, TRUE) IN
         /\ StrokeAllows(stroke, frame, wy)
         /\ smoothed_position' = det.smoothed
         /\ trajectory' = AppendPoint(trajectory, det.point, frame)
         /\ last' = [pose |-> RepPose(wy), raw |-> det.raw, rejected |-> det.rejected,
                     point |-> det.point, before |-> smoothed_position]
         /\ run' = NextRun(run, det.raw, smoothed_position)
         /\ stroke' = NextStroke(stroke, wy)
    /\ frame' = NextFrame(frame)
    /\ UNCHANGED <<aggVars, repVars, angVars, pair, serverVars, pageVars, widgetVars>>

\* The displacement, deviation and rep count that calculate_velocity_metrics
\* reports for an emitted trajectory, whose coordinates are in sub-pixel units.
TrajectoryMetrics(traj) ==
    LET sorted == SortedTraj(traj)
        ys == [i \in 1..Len(sorted) |-> sorted[i].y]
        xs == [i \in 1..Len(sorted) |-> sorted[i].x]
        displacement == Displacement(ys)
    IN  [vertical_displacement |-> displacement,
         horizontal_deviation  |-> Displacement(xs),
         estimated_reps        |-> CountReps(ys, displacement, Scale)]

\* The second pass over the emitted trajectory.
AggregateRepVideo ==
    /\ frame = RepFrames
    /\ metrics = None
    /\ agg_traj' = trajectory
    /\ metrics' = TrajectoryMetrics(trajectory)
    /\ UNCHANGED <<estVars, fps, repVars, angVars, stroke, pair, serverVars, pageVars, widgetVars>>

InitRepVideo == RepVideoInit /\ RepIdle /\ AngIdle /\ PairIdle /\ PageIdle /\ WidgetIdle

NextRepVideo == ProcessRepFrame \/ AggregateRepVideo

SpecRepVideo == InitRepVideo /\ [][NextRepVideo]_vars

(***************************************************************************)
(* Two videos in process at once                                           *)
(*                                                                         *)
(* Each video has its own estimator (smoothing state), frame counter and   *)
(* trajectory buffer, created when its processing begins.  The per-frame   *)
(* steps of the two videos interleave in any order, which includes one     *)
(* video being processed wholly before the other.                          *)
(***************************************************************************)
PairFrames == 2             \* frames of each of the two videos

VideoIds == {1, 2}

\* What a frame of these videos may show: all four landmarks high in the
\* frame, all four low in the frame (a jump away), or none.
PairPoses ==
    { [left_wrist  |-> Landmark(40, wy, v),
       right_wrist |-> Landmark(60, wy, v),
       left_elbow  |-> Landmark(35, wy + 10, v),
       right_elbow |-> Landmark(65, wy + 10, v)] :
         wy \in {10, 90}, v \in {VisibilityThreshold} }
    \cup
    { [left_wrist  |-> Landmark(40, 10, 0),
       right_wrist |-> Landmark(60, 10, 0),
       left_elbow  |-> Landmark(35, 20, 0),
       right_elbow |-> Landmark(65, 20, 0)] }

\* The pipeline of a video whose processing begins.
NewPipeline ==
    [fed |-> <<>>, frame |-> 0, smoothed_position |-> None, trajectory |-> <<>>,
     metrics |-> None]

\* Mutant of EstimatorOf: one estimator serves every video.
EstimatorOfShared(p, v) == p[1]

\* The estimator that processes the frames of video v.
EstimatorOf(p, v) == p[v]

PairInit == pair = [v \in VideoIds |-> NewPipeline]

\* process_video of video v, one iteration of the frame loop.
PairProcessFrame(v) ==
    /\ pair[v].frame < PairFrames
    /\ \E pose \in PairPoses, hold \in BOOLEAN :
         LET det == DetectBarbell(pose, EstimatorOf(pair, v).smoothed_position, hold) IN
         pair' = [pair EXCEPT ![v] =
                    [fed |-> Append(pair[v].fed, [pose |-> pose, hold |-> hold]),
                     frame |-> NextFrame(pair[v].frame),
                     smoothed_position |-> det.smoothed,
                     trajectory |-> AppendPoint(pair[v].trajectory, det.point, pair[v].frame),
                     metrics |-> None]]
    /\ UNCHANGED <<estVars, aggVars, repVars, angVars, stroke, serverVars, pageVars, widgetVars>>

\* The second pass over the trajectory of video v.
PairAggregate(v) ==
    /\ pair[v].frame = PairFrames
    /\ pair[v].metrics = None
    /\ pair' = [pair EXCEPT ![v].metrics = << TrajectoryMetrics(pair[v].trajectory) >>]
    /\ UNCHANGED <<estVars, aggVars, repVars, angVars, stroke, serverVars, pageVars, widgetVars>>

InitPair == EstIdle /\ AggIdle /\ RepIdle /\ AngIdle /\ StrokeIdle /\ PairInit /\ PageIdle /\ WidgetIdle

NextPair == \E v \in VideoIds : PairProcessFrame(v) \/ PairAggregate(v)

SpecPair == InitPair /\ [][NextPair]_vars

(***************************************************************************)
(* Joint Angle Calculator: calculate_angle                                 *)
(*                                                                         *)
(* Landmark coordinates are normalized, in hundredths.  The cosine is the  *)
(* exact fraction; arccos is irrational and the angle is carried as the    *)
(* closed range of whole degrees [lo, hi] that encloses it, or as NaN.     *)
(***************************************************************************)
CoordDen == 100             \* coordinates are in hundredths
EpsInv == 1000000           \* epsilon = 1e-6 = 1 / EpsInv

\* The vertex of the angle; the outer landmarks lie on it or 0.05 away from
\* it, so that every np.linalg.norm is a whole number of hundredths.
AngleVertex == << 50, 50 >>
AngleEnds == { << 50, 50 >>, << 53, 54 >>, << 47, 46 >>, << 54, 47 >>, << 50, 55 >> }
AngleVisibilities == {29, 30, 100}

\* A landmark at pos: with a visibility, or without the key.
LandmarksAt(pos) ==
    { [x |-> pos[1], y |-> pos[2], visibility |-> v] : v \in AngleVisibilities }
      \cup { [x |-> pos[1], y |-> pos[2]] }

\* p.get("visibility", 0)
GetVisibility(p) == IF "visibility" \in DOMAIN p THEN p.visibility ELSE 0

\* Mutant of TooFaint: a landmark exactly at the threshold is skipped too.
TooFaintOrAt(p) == GetVisibility(p) <= VisibilityThreshold

\* p.get("visibility", 0) < 0.3
TooFaint(p) == GetVisibility(p) < VisibilityThreshold

Dot(v, w) == v[1] * w[1] + v[2] * w[2]

\* np.linalg.norm, in hundredths.
Norm(v) == CHOOSE r \in 0..(2 * CoordDen) : r * r = Dot(v, v)

\* np.dot(v1, v2) / (np.linalg.norm(v1) * np.linalg.norm(v2) + 1e-6)
CosAngle(v1, v2) ==
    Frac(Dot(v1, v2) * EpsInv, Norm(v1) * Norm(v2) * EpsInv + CoordDen * CoordDen)

\* np.clip(cos_angle, -1.0, 1.0); NaN (den = 0) stays NaN.
Clip(c) ==
    IF c.den = 0 THEN c
    ELSE IF c.num > c.den THEN [num |-> 1, den |-> 1]
    ELSE IF c.num < -(c.den) THEN [num |-> -1, den |-> 1]
    ELSE c

\* float(np.degrees(np.arccos(c))): the whole degrees that enclose the angle.
\* arccos decreases from 180 at -1 through 90 at 0 to 0 at 1 and is NaN
\* outside [-1, 1].
ArccosDegrees(c) ==
    IF c.den = 0 \/ c.num > c.den \/ c.num < -(c.den)
    THEN [kind |-> "nan", lo |-> 0, hi |-> 0]
    ELSE IF c.num = c.den THEN [kind |-> "number", lo |-> 0, hi |-> 0]
    ELSE IF c.num > 0 THEN [kind |-> "number", lo |-> 0, hi |-> 90]
    ELSE IF c.num = 0 THEN [kind |-> "number", lo |-> 90, hi |-> 90]
    ELSE IF c.num > -(c.den) THEN [kind |-> "number", lo |-> 90, hi |-> 180]
    ELSE [kind |-> "number", lo |-> 180, hi |-> 180]

CalculateAngle(p1, p2, p3) ==
    IF \E p \in {p1, p2, p3} : TooFaint(p)
    THEN [kind |-> "None", lo |-> 0, hi |-> 0]
    ELSE LET v1 == << p1.x - p2.x, p1.y - p2.y >>
             v2 == << p3.x - p2.x, p3.y - p2.y >>
         IN  ArccosDegrees(Clip(CosAngle(v1, v2)))

AngInit ==
    /\ angle_args \in { << p1, p2, p3 >> : p1 \in UNION { LandmarksAt(e) : e \in AngleEnds },
                                          p2 \in LandmarksAt(AngleVertex),
                                          p3 \in UNION { LandmarksAt(e) : e \in AngleEnds } }
    /\ angle_result = <<>>

\* One call of calculate_angle.
AngCalculate ==
    /\ angle_result = <<>>
    /\ angle_result' = << CalculateAngle(angle_args[1], angle_args[2], angle_args[3]) >>
    /\ UNCHANGED angle_args
    /\ UNCHANGED <<estVars, aggVars, repVars, stroke, pair, serverVars, pageVars, widgetVars>>

InitAngle == EstIdle /\ AggIdle /\ RepIdle /\ AngInit /\ StrokeIdle /\ PairIdle /\ PageIdle /\ WidgetIdle

NextAngle == AngCalculate

SpecAngle == InitAngle /\ [][NextAngle]_vars

(***************************************************************************)
(* The video detail page (specification SpecPage)                          *)
(*                                                                         *)
(* One open detail page of one video, the server's row of that video and   *)
(* the process requests between them.  The page holds the ['video'] query  *)
(* (its data, the fetch in flight, the refetch interval computed from the  *)
(* data), the effect on the status with prevStatusRef, showCalibration and *)
(* the processVideo mutation.  Both versions of page.tsx are covered:      *)
(* they differ in the Retry button only.  A fetch that fails leaves the    *)
(* query's data as it was and is left out, as are the click-to-track       *)
(* mutation and the progress poll of ProcessingProgress.                   *)
(***************************************************************************)
MaxRequests == 3
PollMs == 2000
Statuses == {"pending", "processing", "completed", "failed"}
PageVersions == {1, 2}

\* refetchInterval of the ['video'] query: the interval in ms, 0 for false.
RefetchIntervalUnlessCompleted(status) ==
    IF status # "completed" /\ status # "undefined" THEN PollMs ELSE 0

RefetchInterval(status) ==
    IF status = "processing" THEN PollMs ELSE 0

\* The condition of the effect under which the dependent queries are
\* invalidated.
CompletionSeen(prevStatus, currentStatus) ==
    prevStatus = "processing" /\ currentStatus = "completed"

\* enabled of the ['detection-results'] and ['tracking-session'] queries.
DependentsEnabledOnceStarted(status) ==
    status \in {"processing", "completed"}

DependentsEnabled(status) ==
    status = "completed"

\* What the page renders in its main column: the video viewer (the processed
\* viewer or the plain player) and the calibration step.
ViewerRendered(version, status, showCalibration) ==
    version = 2 \/ ~showCalibration

CalibrationRendered(status, showCalibration) ==
    status = "pending" /\ showCalibration

\* disabled of the Retry button.
RetryDisabled(version, pending) ==
    version = 2 /\ pending

\* The page opens on a video in any status, its first fetch in flight.
PageInit ==
    /\ db_status \in Statuses
    /\ req_sent = 0 /\ req_total = 0 /\ responses = <<>>
    /\ video_data = "undefined" /\ video_fetch = "mount"
    /\ poll_timer = RefetchInterval("undefined")
    /\ prev_status = "undefined" /\ observed = <<>> /\ invalidations = 0
    /\ show_calibration = FALSE /\ is_pending = FALSE
    /\ page_version \in PageVersions
    /\ dep_fetch = FALSE /\ dep_data = "none"

\* The fetch of the ['video'] query resolves with the row's status; the page
\* renders, and when the status differs from the one rendered before the
\* effect runs.
VideoFetchResolves ==
    /\ video_fetch # "idle"
    /\ video_fetch' = "idle"
    /\ video_data' = db_status
    /\ poll_timer' = RefetchInterval(db_status)
    /\ IF db_status # video_data
       THEN /\ invalidations' =
                   IF CompletionSeen(prev_status, db_status)
                   THEN invalidations + 1 ELSE invalidations
            /\ prev_status' = db_status
            /\ observed' = Append(observed, db_status)
       ELSE UNCHANGED <<invalidations, prev_status, observed>>
    /\ dep_fetch' =
          IF /\ DependentsEnabled(db_status)
             /\ \/ ~DependentsEnabled(video_data)
                \/ db_status # video_data /\ CompletionSeen(prev_status, db_status)
          THEN TRUE ELSE dep_fetch
    /\ UNCHANGED <<show_calibration, is_pending, page_version, dep_data>>
    /\ UNCHANGED <<serverVars, estVars, aggVars, repVars, angVars, stroke, pair, widgetVars>>

\* The fetch of the dependent queries resolves: with the results of the run
\* and its tracking session, or with no rows.
DependentFetchResolves ==
    /\ dep_fetch
    /\ dep_fetch' = FALSE
    /\ dep_data' \in IF db_status = "completed"
                     THEN {"results", "empty"} ELSE {"empty"}
    /\ UNCHANGED <<video_data, video_fetch, poll_timer, prev_status, observed,
                   invalidations, show_calibration, is_pending, page_version>>
    /\ UNCHANGED <<serverVars, estVars, aggVars, repVars, angVars, stroke, pair, widgetVars>>

\* The refetch interval elapses and the query is fetched again.
PollTick ==
    /\ poll_timer > 0
    /\ video_fetch = "idle"
    /\ video_fetch' = "interval"
    /\ UNCHANGED <<video_data, poll_timer, prev_status, observed, invalidations,
                   show_calibration, is_pending, page_version, dep_fetch, dep_data>>
    /\ UNCHANGED <<serverVars, estVars, aggVars, repVars, angVars, stroke, pair, widgetVars>>

\* processVideo.mutate: a process request leaves for the server.
Mutate ==
    /\ req_total < MaxRequests
    /\ req_sent' = req_sent + 1
    /\ req_total' = req_total + 1
    /\ is_pending' = TRUE
    /\ UNCHANGED <<db_status, responses>>
    /\ UNCHANGED <<video_data, video_fetch, poll_timer, prev_status, observed,
                   invalidations, show_calibration, page_version, dep_fetch, dep_data>>
    /\ UNCHANGED <<estVars, aggVars, repVars, angVars, stroke, pair, widgetVars>>

ClickQuickStart ==
    /\ video_data = "pending" /\ ~show_calibration
    /\ ~is_pending
    /\ Mutate

ClickStartProcessing ==
    /\ video_data = "pending" /\ show_calibration
    /\ Mutate

ClickRetry ==
    /\ video_data = "failed"
    /\ ~RetryDisabled(page_version, is_pending)
    /\ Mutate

\* Setup opens the calibration step, its Cancel closes it.
ClickSetup ==
    /\ video_data = "pending" /\ ~show_calibration
    /\ show_calibration' = TRUE
    /\ UNCHANGED <<video_data, video_fetch, poll_timer, prev_status, observed,
                   invalidations, is_pending, page_version, dep_fetch, dep_data>>
    /\ UNCHANGED <<serverVars, estVars, aggVars, repVars, angVars, stroke, pair, widgetVars>>

ClickCancel ==
    /\ video_data = "pending" /\ show_calibration
    /\ show_calibration' = FALSE
    /\ UNCHANGED <<video_data, video_fetch, poll_timer, prev_status, observed,
                   invalidations, is_pending, page_version, dep_fetch, dep_data>>
    /\ UNCHANGED <<serverVars, estVars, aggVars, repVars, angVars, stroke, pair, widgetVars>>

\* Reprocess, in the summary of a completed video of the first version of the
\* page, shown once the tracking session has trajectory data.
ClickReprocess ==
    /\ page_version = 1
    /\ video_data = "completed" /\ dep_data = "results"
    /\ show_calibration' = TRUE
    /\ UNCHANGED <<video_data, video_fetch, poll_timer, prev_status, observed,
                   invalidations, is_pending, page_version, dep_fetch, dep_data>>
    /\ UNCHANGED <<serverVars, estVars, aggVars, repVars, angVars, stroke, pair, widgetVars>>

\* POST /{id}/process: a video that waits or has failed starts processing;
\* for a video in another status the row is left alone and the answer is
\* either one.
ServerProcess ==
    /\ req_sent > 0
    /\ req_sent' = req_sent - 1
    /\ IF db_status \in {"pending", "failed"}
       THEN /\ db_status' = "processing"
            /\ responses' = Append(responses, "ok")
       ELSE /\ UNCHANGED db_status
            /\ \E answer \in {"ok", "error"} :
                  responses' = Append(responses, answer)
    /\ UNCHANGED <<req_total, pageVars>>
    /\ UNCHANGED <<estVars, aggVars, repVars, angVars, stroke, pair, widgetVars>>

\* The processing of the video ends, well or not.
ServerFinishes ==
    /\ db_status = "processing"
    /\ db_status' \in {"completed", "failed"}
    /\ UNCHANGED <<req_sent, req_total, responses, pageVars>>
    /\ UNCHANGED <<estVars, aggVars, repVars, angVars, stroke, pair, widgetVars>>

\* The answer to a process request arrives: onSuccess closes the calibration
\* step and invalidates the ['video'] query, which is fetched again; onError
\* shows a toast.  isPending stays while a later request is unanswered.
MutationSettles ==
    /\ responses # <<>>
    /\ responses' = Tail(responses)
    /\ is_pending' = (req_sent + Len(responses) > 1)
    /\ IF Head(responses) = "ok"
       THEN /\ show_calibration' = FALSE
            /\ video_fetch' = "invalidate"
       ELSE UNCHANGED <<show_calibration, video_fetch>>
    /\ UNCHANGED <<db_status, req_sent, req_total>>
    /\ UNCHANGED <<video_data, poll_timer, prev_status, observed, invalidations,
                   page_version, dep_fetch, dep_data>>
    /\ UNCHANGED <<estVars, aggVars, repVars, angVars, stroke, pair, widgetVars>>

InitPage == EstIdle /\ AggIdle /\ RepIdle /\ AngIdle /\ StrokeIdle /\ PairIdle /\ PageInit /\ WidgetIdle

NextPage ==
    \/ VideoFetchResolves
    \/ PollTick
    \/ ClickQuickStart
    \/ ClickStartProcessing
    \/ ClickRetry
    \/ ClickSetup
    \/ ClickCancel
    \/ ClickReprocess
    \/ DependentFetchResolves
    \/ ServerProcess
    \/ ServerFinishes
    \/ MutationSettles

SpecPage == InitPage /\ [][NextPage]_vars

(***************************************************************************)
(* The video player (specification SpecPlayer)                             *)
(*                                                                         *)
(* One mounted VideoPlayer and its video element.  The effect attaches     *)
(* the listeners of one effect run; each run has its own closure, with its *)
(* own animationFrameId and the onTimeUpdate prop of its render.  Time is  *)
(* counted in frames.  A media event and the listener it reaches are one   *)
(* step: the element changes and the listener of the attached run runs.    *)
(***************************************************************************)
VideoLength == 3
MaxPropChanges == 2

\* onTimeUpdate?.(video.currentTime), called by the closure of effect run r.
TimeReport(how, r) ==
    <<[time |-> current_time, by |-> how, run |-> r]>>

PlayerInit ==
    /\ paused = TRUE
    /\ animationFrameId = 0
    /\ effect_run = 1
    /\ current_time = 0
    /\ reported = <<>>

\* togglePlay on a paused video: the element plays, handlePlay requests the
\* first animation frame.
Play ==
    /\ paused /\ current_time < VideoLength
    /\ paused' = FALSE
    /\ animationFrameId' = effect_run
    /\ UNCHANGED <<effect_run, current_time, reported>>
    /\ UNCHANGED exceptPlayer

\* togglePlay on a playing video: handlePause cancels the animation frame and
\* reports the time once more.
Pause ==
    /\ ~paused
    /\ paused' = TRUE
    /\ animationFrameId' = 0
    /\ reported' = TimeReport("pause", effect_run)
    /\ UNCHANGED <<effect_run, current_time>>
    /\ UNCHANGED exceptPlayer

\* An animation frame: the scheduled rafLoop runs; it reports the time and
\* requests the next frame while the video plays.
AnimationFrame ==
    /\ animationFrameId # 0
    /\ IF ~paused
       THEN /\ reported' = TimeReport("raf", animationFrameId)
            /\ UNCHANGED animationFrameId
       ELSE /\ animationFrameId' = 0
            /\ UNCHANGED reported
    /\ UNCHANGED <<paused, effect_run, current_time>>
    /\ UNCHANGED exceptPlayer

\* Playback advances by a frame.
Advance ==
    /\ ~paused /\ current_time < VideoLength
    /\ current_time' = current_time + 1
    /\ UNCHANGED <<paused, animationFrameId, effect_run, reported>>
    /\ UNCHANGED exceptPlayer

\* Playback reaches the end: the element pauses, handlePause and handleEnded
\* run.
Ended ==
    /\ ~paused /\ current_time = VideoLength
    /\ paused' = TRUE
    /\ animationFrameId' = 0
    /\ reported' = TimeReport("pause", effect_run)
    /\ UNCHANGED <<effect_run, current_time>>
    /\ UNCHANGED exceptPlayer

\* skip or seek: the element jumps, handleSeeking reports the new time.
Seek ==
    /\ \E t \in 0..VideoLength :
          /\ t # current_time
          /\ current_time' = t
          /\ reported' = <<[time |-> t, by |-> "seek", run |-> effect_run]>>
    /\ UNCHANGED <<paused, animationFrameId, effect_run>>
    /\ UNCHANGED exceptPlayer

\* The element's timeupdate event: handleTimeUpdate reports only while the
\* video is paused.
TimeUpdateEvent ==
    /\ paused
    /\ reported' = TimeReport("timeupdate", effect_run)
    /\ reported' # reported
    /\ UNCHANGED <<paused, animationFrameId, effect_run, current_time>>
    /\ UNCHANGED exceptPlayer

\* The parent renders with a new onTimeUpdate or onLoadedMetadata: the
\* cleanup of the effect cancels the animation frame and removes the
\* listeners, the effect runs again and attaches those of a new closure.
PropChange ==
    /\ effect_run <= MaxPropChanges
    /\ effect_run' = effect_run + 1
    /\ animationFrameId' = 0
    /\ UNCHANGED <<paused, current_time, reported>>
    /\ UNCHANGED exceptPlayer

\* The video pipeline, the server and the detail page are at rest.
BackIdle ==
    EstIdle /\ AggIdle /\ RepIdle /\ AngIdle /\ StrokeIdle /\ PairIdle /\ PageIdle

InitPlayer == BackIdle /\ PlayerInit /\ ViewerIdle /\ CalibrationIdle /\ ModalIdle /\ UploadIdle

NextPlayer ==
    \/ Play
    \/ Pause
    \/ AnimationFrame
    \/ Advance
    \/ Ended
    \/ Seek
    \/ TimeUpdateEvent
    \/ PropChange

SpecPlayer == InitPlayer /\ [][NextPlayer]_vars

(***************************************************************************)
(* The processed video viewer (specification SpecViewer)                   *)
(*                                                                         *)
(* One mounted ProcessedVideoViewer: its viewMode, whether the parent      *)
(* passes an overlayVideoUrl, and the buttons that are rendered.  A click  *)
(* or a change of the prop is one step with the render and the effect      *)
(* that follow it.                                                         *)
(***************************************************************************)
MaxViewClicks == 3
ViewModes == {"original", "overlay", "canvas", "sidebyside"}

\* The effect on [overlayVideoUrl, viewMode]: the mode it leaves.
SwitchToOverlay(viewMode, overlayVideoUrl) ==
    IF overlayVideoUrl /\ viewMode = "canvas" THEN "overlay" ELSE viewMode

\* The mode buttons the viewer renders.
ButtonRendered(mode) ==
    CASE mode = "overlay" -> overlay_available
      [] mode = "canvas"  -> has_tracking
      [] OTHER            -> TRUE

ViewerInit ==
    /\ overlay_available \in BOOLEAN
    /\ has_tracking \in BOOLEAN
    /\ view_mode = SwitchToOverlay("canvas", overlay_available)
    /\ clicked = <<>>

\* A click on one of the mode buttons.
ClickMode(mode) ==
    /\ Len(clicked) < MaxViewClicks
    /\ ButtonRendered(mode)
    /\ view_mode' = SwitchToOverlay(mode, overlay_available)
    /\ clicked' = Append(clicked, mode)
    /\ UNCHANGED <<overlay_available, has_tracking>>
    /\ UNCHANGED exceptViewer

\* The pre-rendered overlay video becomes available.
OverlayArrives ==
    /\ ~overlay_available
    /\ overlay_available' = TRUE
    /\ view_mode' = SwitchToOverlay(view_mode, TRUE)
    /\ UNCHANGED <<has_tracking, clicked>>
    /\ UNCHANGED exceptViewer

\* Tracking data arrives with the results of the dependent queries.
TrackingArrives ==
    /\ ~has_tracking
    /\ has_tracking' = TRUE
    /\ UNCHANGED <<view_mode, overlay_available, clicked>>
    /\ UNCHANGED exceptViewer

InitViewer == BackIdle /\ PlayerIdle /\ ViewerInit /\ CalibrationIdle /\ ModalIdle /\ UploadIdle

NextViewer ==
    \/ \E mode \in ViewModes : ClickMode(mode)
    \/ OverlayArrives
    \/ TrackingArrives

SpecViewer == InitViewer /\ [][NextViewer]_vars

(***************************************************************************)
(* The calibration step (specification SpecCalibration)                    *)
(*                                                                         *)
(* One mounted CalibrationStep: its state, the key of its calibration      *)
(* query (frameNumber, poseBackend) and the query itself (the data cached  *)
(* by key, whether the query of the current key is being fetched, whether  *)
(* it holds an error).  A step is an answer or a click together with the   *)
(* render that follows, in which a step in state 'loading' that has data   *)
(* moves on.  The answer to a request whose key the step has left is not   *)
(* followed.                                                               *)
(***************************************************************************)
LastCalFrame == 1
PoseBackends == {"yolo", "mediapipe"}
CalKeys == (0..LastCalFrame) \X PoseBackends
PeopleCounts == {"zero", "one", "many"}

\* The state a loading step takes when calibration data is there.
StateForData(state, data) ==
    IF data # "none" /\ state = "loading"
    THEN IF data = "one" THEN "confirm_bar" ELSE "select_person"
    ELSE state

\* isLoading of the query: being fetched with no data yet.
IsLoading(fetching, data) == fetching /\ data = "none"

\* The view the step returns.
CalibrationView(state, fetching, data, error) ==
    IF IsLoading(fetching, data) \/ state = "loading" THEN "analyzing"
    ELSE IF error THEN "failed"
    ELSE IF data = "none" THEN "null"
    ELSE state

CalData == cal_cache[<<frameNumber, poseBackend>>]
CalView == CalibrationView(cal_state, cal_fetching, CalData, cal_error)

\* The step mounts: state 'loading', the first request on its way.
CalibrationInit ==
    /\ cal_state = "loading"
    /\ frameNumber = 0
    /\ poseBackend = "yolo"
    /\ cal_cache = [k \in CalKeys |-> "none"]
    /\ cal_fetching = TRUE
    /\ cal_error = FALSE

\* The calibration request is answered with the people of the frame.
CalibrationSucceeds ==
    /\ cal_fetching
    /\ \E people \in PeopleCounts :
          /\ cal_cache' = [cal_cache EXCEPT ![<<frameNumber, poseBackend>>] = people]
          /\ cal_state' = StateForData(cal_state, people)
    /\ cal_fetching' = FALSE
    /\ cal_error' = FALSE
    /\ UNCHANGED <<frameNumber, poseBackend>>
    /\ UNCHANGED exceptCalibration

\* The calibration request fails; retry is off.
CalibrationFails ==
    /\ cal_fetching
    /\ cal_fetching' = FALSE
    /\ cal_error' = TRUE
    /\ cal_state' = StateForData(cal_state, CalData)
    /\ UNCHANGED <<frameNumber, poseBackend, cal_cache>>
    /\ UNCHANGED exceptCalibration

\* The query observes another key: cached data is shown and may be fetched
\* again, a key without data is fetched.
ObserveKey(newFrame, backend) ==
    /\ frameNumber' = newFrame
    /\ poseBackend' = backend
    /\ cal_state' = StateForData("loading", cal_cache[<<newFrame, backend>>])
    /\ IF <<newFrame, backend>> = <<frameNumber, poseBackend>>
       THEN UNCHANGED <<cal_fetching, cal_error>>
       ELSE /\ cal_error' = FALSE
            /\ IF cal_cache[<<newFrame, backend>>] = "none"
               THEN cal_fetching' = TRUE
               ELSE cal_fetching' \in BOOLEAN
    /\ UNCHANGED cal_cache
    /\ UNCHANGED exceptCalibration

\* handleBackendChange, from the person selection.
ClickBackend ==
    /\ CalView = "select_person"
    /\ \E backend \in PoseBackends : ObserveKey(frameNumber, backend)

\* handleTryDifferentFrame, from the person selection: a later frame, the
\* last one at most, and a refetch.
ClickTryDifferentFrame ==
    /\ CalView = "select_person"
    /\ LET newFrame == IF frameNumber < LastCalFrame
                       THEN frameNumber + 1 ELSE LastCalFrame
       IN  IF newFrame # frameNumber
           THEN ObserveKey(newFrame, poseBackend)
           ELSE /\ cal_fetching' = TRUE
                /\ cal_state' = StateForData("loading", CalData)
                /\ UNCHANGED <<frameNumber, poseBackend, cal_cache, cal_error>>
                /\ UNCHANGED exceptCalibration

\* handlePersonSelected and handleBackToSelection.
ClickPerson ==
    /\ CalView = "select_person"
    /\ CalData \in {"one", "many"}
    /\ cal_state' = "confirm_bar"
    /\ UNCHANGED <<frameNumber, poseBackend, cal_cache, cal_fetching, cal_error>>
    /\ UNCHANGED exceptCalibration

ClickBack ==
    /\ CalView = "confirm_bar"
    /\ cal_state' = "select_person"
    /\ UNCHANGED <<frameNumber, poseBackend, cal_cache, cal_fetching, cal_error>>
    /\ UNCHANGED exceptCalibration

\* Retry of the 'Analysis Failed' view: refetch.
ClickCalibrationRetry ==
    /\ CalView = "failed"
    /\ ~cal_fetching
    /\ cal_fetching' = TRUE
    /\ UNCHANGED <<cal_state, frameNumber, poseBackend, cal_cache, cal_error>>
    /\ UNCHANGED exceptCalibration

InitCalibration == BackIdle /\ PlayerIdle /\ ViewerIdle /\ CalibrationInit /\ ModalIdle /\ UploadIdle

NextCalibration ==
    \/ CalibrationSucceeds
    \/ CalibrationFails
    \/ ClickBackend
    \/ ClickTryDifferentFrame
    \/ ClickPerson
    \/ ClickBack
    \/ ClickCalibrationRetry

SpecCalibration == InitCalibration /\ [][NextCalibration]_vars

(***************************************************************************)
(* The weight detection modal (specification SpecModal)                    *)
(*                                                                         *)
(* One mounted WeightDetectionModal and the runs of runDetection it has    *)
(* started.  A run waits 800 ms, sets the step, awaits the answer of the   *)
(* weight detection request and then sets result and step; each of the     *)
(* two continuations is a step of its own.  The modal is closed through    *)
(* the dialog (its close control, Escape, a click outside) at any time.    *)
(***************************************************************************)
MaxDetections == 2
ModalVideos == {1, 2}
Outcomes == {"weight", "no_weight", "unsuccessful", "thrown"}

\* runDetection is called: setStep('extracting'), and the run waits.
StartDetection(opening, videoId) ==
    /\ Len(detections) < MaxDetections
    /\ detections' = Append(detections,
                            [phase |-> "delay", session |-> opening,
                             video |-> videoId])
    /\ step' = "extracting"

ModalInit ==
    /\ modal_open = FALSE
    /\ modal_video \in ModalVideos
    /\ step = "extracting"
    /\ result = <<>>
    /\ detections = <<>>
    /\ session = 0
    /\ notified = <<>>

\* The parent opens the modal: the effect calls runDetection.
OpenModal ==
    /\ ~modal_open
    /\ modal_open' = TRUE
    /\ session' = session + 1
    /\ StartDetection(session + 1, modal_video)
    /\ UNCHANGED <<modal_video, result, notified>>
    /\ UNCHANGED exceptModal

\* The modal is closed: the effect resets step and result.
CloseModal ==
    /\ modal_open
    /\ modal_open' = FALSE
    /\ step' = "extracting"
    /\ result' = <<>>
    /\ UNCHANGED <<modal_video, detections, session, notified>>
    /\ UNCHANGED exceptModal

\* The videoId prop changes: while the modal is open the effect calls
\* runDetection for the new video, while it is closed it resets the state.
ChangeVideo ==
    /\ \E v \in ModalVideos :
          /\ v # modal_video
          /\ modal_video' = v
          /\ IF modal_open
             THEN /\ StartDetection(session, v)
                  /\ UNCHANGED result
             ELSE /\ step' = "extracting"
                  /\ result' = <<>>
                  /\ UNCHANGED detections
    /\ UNCHANGED <<modal_open, session, notified>>
    /\ UNCHANGED exceptModal

\* The 800 ms of run i are over: setStep('analyzing'), the request is sent.
DelayElapses(i) ==
    /\ detections[i].phase = "delay"
    /\ detections' = [detections EXCEPT ![i].phase = "request"]
    /\ step' = "analyzing"
    /\ UNCHANGED <<modal_open, modal_video, result, session, notified>>
    /\ UNCHANGED exceptModal

\* The request of run i is answered or fails: result and step are set, and
\* onDetectionComplete is called for a detected weight.
DetectionSettles(i) ==
    /\ detections[i].phase = "request"
    /\ detections' = [detections EXCEPT ![i].phase = "done"]
    /\ \E outcome \in Outcomes :
          /\ result' = <<[run |-> i,
                          success |-> outcome \in {"weight", "no_weight"}]>>
          /\ step' = IF outcome \in {"weight", "no_weight"}
                     THEN "complete" ELSE "error"
          /\ notified' = IF outcome = "weight"
                         THEN Append(notified,
                                     [run |-> i, open |-> modal_open,
                                      session |-> session, video |-> modal_video])
                         ELSE notified
    /\ UNCHANGED <<modal_open, modal_video, session>>
    /\ UNCHANGED exceptModal

\* handleRetry, offered in step 'error'.
ClickModalRetry ==
    /\ modal_open /\ step = "error"
    /\ result' = <<>>
    /\ StartDetection(session, modal_video)
    /\ UNCHANGED <<modal_open, modal_video, session, notified>>
    /\ UNCHANGED exceptModal

InitModal == BackIdle /\ PlayerIdle /\ ViewerIdle /\ CalibrationIdle /\ ModalInit /\ UploadIdle

NextModal ==
    \/ OpenModal
    \/ CloseModal
    \/ ChangeVideo
    \/ \E i \in 1..Len(detections) : DelayElapses(i)
    \/ \E i \in 1..Len(detections) : DetectionSettles(i)
    \/ ClickModalRetry

SpecModal == InitModal /\ [][NextModal]_vars

(***************************************************************************)
(* The video upload (specification SpecUpload)                             *)
(*                                                                         *)
(* One mounted VideoUpload, the storage bucket and the videos table.  The  *)
(* mutation uploads the file, then inserts the row; when it settles the    *)
(* callbacks of useMutation run first (onSuccess or onError), then the     *)
(* onSettled passed to mutate.  The second version of the component asks   *)
(* for an exercise type first.  After router.push the component is left.   *)
(***************************************************************************)
MaxUploads == 2
ProgressStep == 10
ProgressCap == 90
ProgressDone == 100
UploadVersions == {1, 2}

IsPending == mutation \in {"storage", "insert"}

\* The mutation function after the storage upload: it throws on an error.
MutationAfterStorageIgnoringError(uploadError) == "insert"

MutationAfterStorage(uploadError) ==
    IF uploadError THEN "error" ELSE "insert"

\* The updater of the progress interval.
NextProgress(prev) ==
    IF prev >= ProgressCap THEN ProgressCap ELSE prev + ProgressStep

\* What the callbacks leave in uploadProgress: onError of useMutation, then
\* onSettled of the call of mutate.
ProgressAfterOnError == 0
ProgressAfterOnSettled(prev) == ProgressDone

UploadInit ==
    /\ upload_version \in UploadVersions
    /\ file = FALSE
    /\ selectedExerciseType = FALSE
    /\ uploadProgress = 0
    /\ interval = FALSE
    /\ mutation = "idle"
    /\ attempts = 0
    /\ stored = 0
    /\ rows = <<>>
    /\ navigated = FALSE
    /\ settled = <<>>

\* The exercise type is chosen in the selector, or given up with Change.
SelectExerciseType ==
    /\ ~navigated
    /\ upload_version = 2 /\ ~selectedExerciseType
    /\ selectedExerciseType' = TRUE
    /\ UNCHANGED <<upload_version, file, uploadProgress, interval, mutation,
                   attempts, stored, rows, navigated, settled>>
    /\ UNCHANGED exceptUpload

ChangeExerciseType ==
    /\ ~navigated
    /\ upload_version = 2 /\ selectedExerciseType /\ ~file
    /\ selectedExerciseType' = FALSE
    /\ UNCHANGED <<upload_version, file, uploadProgress, interval, mutation,
                   attempts, stored, rows, navigated, settled>>
    /\ UNCHANGED exceptUpload

\* handleDrop or handleFileSelect in the drop zone, shown while no file is
\* selected.
SelectFile ==
    /\ ~navigated
    /\ ~file
    /\ upload_version = 2 => selectedExerciseType
    /\ file' = TRUE
    /\ UNCHANGED <<upload_version, selectedExerciseType, uploadProgress, interval,
                   mutation, attempts, stored, rows, navigated, settled>>
    /\ UNCHANGED exceptUpload

\* clearFile, on the X that is rendered while the mutation is not pending.
ClearFile ==
    /\ ~navigated
    /\ file /\ ~IsPending
    /\ file' = FALSE
    /\ uploadProgress' = 0
    /\ selectedExerciseType' = FALSE
    /\ UNCHANGED <<upload_version, interval, mutation, attempts, stored, rows,
                   navigated, settled>>
    /\ UNCHANGED exceptUpload

\* handleUpload, on the button that is disabled while the mutation is
\* pending: the progress restarts, the interval starts, the mutation runs.
HandleUpload ==
    /\ ~navigated
    /\ file /\ ~IsPending
    /\ upload_version = 2 => selectedExerciseType
    /\ attempts < MaxUploads
    /\ attempts' = attempts + 1
    /\ uploadProgress' = 0
    /\ interval' = TRUE
    /\ mutation' = "storage"
    /\ UNCHANGED <<upload_version, file, selectedExerciseType, stored, rows,
                   navigated, settled>>
    /\ UNCHANGED exceptUpload

\* The interval fires: the progress grows up to the cap, where the interval
\* clears itself.
IntervalTick ==
    /\ interval
    /\ uploadProgress' = NextProgress(uploadProgress)
    /\ interval' = (uploadProgress < ProgressCap)
    /\ UNCHANGED <<upload_version, file, selectedExerciseType, mutation, attempts,
                   stored, rows, navigated, settled>>
    /\ UNCHANGED exceptUpload

\* The mutation fails: onError clears the file and the progress, then the
\* onSettled of mutate clears the interval and sets the progress.
SettleWithError ==
    /\ mutation' = "error"
    /\ file' = FALSE
    /\ interval' = FALSE
    /\ uploadProgress' = ProgressAfterOnSettled(ProgressAfterOnError)
    /\ settled' = <<[ok |-> FALSE, file |-> FALSE,
                     progress |-> ProgressAfterOnSettled(ProgressAfterOnError),
                     navigated |-> navigated]>>
    /\ UNCHANGED <<upload_version, selectedExerciseType, attempts, rows, navigated>>

\* The storage upload is answered.
StorageAnswers ==
    /\ mutation = "storage"
    /\ \E uploadError \in BOOLEAN :
          /\ stored' = IF uploadError THEN stored ELSE stored + 1
          /\ IF MutationAfterStorage(uploadError) = "error"
             THEN SettleWithError
             ELSE /\ mutation' = "insert"
                  /\ UNCHANGED <<upload_version, file, selectedExerciseType,
                                 uploadProgress, interval, attempts, rows,
                                 navigated, settled>>
    /\ UNCHANGED exceptUpload

\* The insert of the row is answered: on success onSuccess navigates to the
\* page of the video and onSettled clears the interval.
InsertAnswers ==
    /\ mutation = "insert"
    /\ \E dbError \in BOOLEAN :
          IF dbError
          THEN SettleWithError
          ELSE /\ rows' = Append(rows, "pending")
               /\ mutation' = "success"
               /\ navigated' = TRUE
               /\ interval' = FALSE
               /\ uploadProgress' = ProgressAfterOnSettled(uploadProgress)
               /\ settled' = <<[ok |-> TRUE, file |-> file,
                                progress |-> ProgressAfterOnSettled(uploadProgress),
                                navigated |-> TRUE]>>
               /\ UNCHANGED <<upload_version, file, selectedExerciseType, attempts>>
    /\ UNCHANGED stored
    /\ UNCHANGED exceptUpload

InitUpload ==
    BackIdle /\ PlayerIdle /\ ViewerIdle /\ CalibrationIdle /\ ModalIdle /\ UploadInit

NextUpload ==
    \/ SelectExerciseType
    \/ ChangeExerciseType
    \/ SelectFile
    \/ ClearFile
    \/ HandleUpload
    \/ IntervalTick
    \/ StorageAnswers
    \/ InsertAnswers

SpecUpload == InitUpload /\ [][NextUpload]_vars

(***************************************************************************)
(* Properties of the forward pass (specification Spec)                     *)
(***************************************************************************)
\* Distance test used by the properties: candidate c (pixels) is more than
\* 500 pixels from position s (scaled).
FartherThanThreshold(c, s) ==
    LET d2 == SquaredDistance(c, s)
    IN  d2.whole > 250000 \/ (d2.whole = 250000 /\ d2.part > 0)

AllFourVisible(pose) ==
    /\ pose.left_wrist.visibility >= VisibilityThreshold
    /\ pose.right_wrist.visibility >= VisibilityThreshold
    /\ pose.left_elbow.visibility >= VisibilityThreshold
    /\ pose.right_elbow.visibility >= VisibilityThreshold

SomeWristVisible(pose) ==
    \/ pose.left_wrist.visibility >= VisibilityThreshold
    \/ pose.right_wrist.visibility >= VisibilityThreshold

\* C1: at most one BarPoint is emitted per frame, only for frames already
\* processed, and the frame values of the trajectory are strictly increasing
\* (no repeats).
C1_FramesStrictlyIncreasing ==
    /\ Len(trajectory) <= frame
    /\ \A i \in 1..Len(trajectory) : trajectory[i].frame \in 0..(frame - 1)
    /\ \A i \in 1..Len(trajectory) : \A j \in 1..Len(trajectory) :
          i < j => trajectory[i].frame < trajectory[j].frame
    /\ \A f \in 0..NumFrames :
          Cardinality({i \in 1..Len(trajectory) : trajectory[i].frame = f}) <= 1

\* C1 witness: a whole video processed, several points emitted, one frame
\* omitted and one emitted as a held prediction.
C1_Witness ==
    /\ frame = NumFrames
    /\ Len(trajectory) >= 2
    /\ Len(trajectory) < frame
    /\ \E i \in 1..Len(trajectory) : trajectory[i].source = "smoothed_prediction"

\* C2: when the raw candidate of the last frame lay more than 500 px from the
\* smoothed position, the smoothing state is what it was before the frame and
\* the point emitted for the frame does not carry the candidate's coordinates.
C2_OutlierLeavesStateUnchanged ==
    (last.raw # None /\ last.before # None /\ FartherThanThreshold(last.raw, last.before))
      => /\ smoothed_position = last.before
         /\ last.point # None =>
              << last.point.x, last.point.y >> # << last.raw[1] * Scale, last.raw[2] * Scale >>

\* C2 witness: a frame whose candidate was rejected as a jump and for which a
\* point was emitted.
C2_Witness ==
    /\ last.raw # None /\ last.before # None
    /\ FartherThanThreshold(last.raw, last.before)
    /\ last.point # None
    /\ Len(trajectory) >= 2

\* The distance from the run's candidate to the smoothed state, on each axis,
\* has been halved once per frame of the run.
RunHalved ==
    \A k \in 1..2 :
        (run.c[k] * Scale - smoothed_position[k]) * (2 ^ run.len)
            = run.c[k] * Scale - run.start[k]

\* C3 (as stated): after initialisation, feeding the same raw candidate c on N
\* consecutive frames halves the distance to c on every frame, for every
\* smoothed state the run starts from and every c.
C3_ConvergesForEveryCandidate ==
    run.len >= 1 => RunHalved

\* C3 (amended): after initialisation, feeding the same raw candidate c on N
\* consecutive frames leaves the smoothed state at distance d / 2^N from c on
\* each axis (so within any epsilon for N large enough), provided c lies within
\* 500 px of the smoothed state the run starts from.
C3_ConvergesWithinThreshold ==
    (run.len >= 1 /\ ~FartherThanThreshold(run.c, run.start)) => RunHalved

\* C3 witness: two frames of the same candidate, which started away from it.
C3_Witness ==
    /\ run.len >= 2
    /\ ~FartherThanThreshold(run.c, run.start)
    /\ << run.c[1] * Scale, run.c[2] * Scale >> # run.start
    /\ smoothed_position # run.start

\* C4: the tier of the last frame is forearm_extended exactly when both wrists
\* and both elbows have visibility >= 0.3; otherwise it is wrist_fallback as
\* soon as one wrist is visible; the raw candidate is absent exactly when no
\* wrist is visible.
C4_TierByPriority ==
    last.pose # None =>
        /\ (last.raw # None /\ last.point.source = "forearm_extended")
              <=> AllFourVisible(last.pose)
        /\ (~AllFourVisible(last.pose) /\ SomeWristVisible(last.pose))
              => (last.raw # None /\ last.point.source = "wrist_fallback")
        /\ (last.raw = None) <=> ~SomeWristVisible(last.pose)

\* C4 witness: all four landmarks exactly at the threshold give the best tier,
\* after a frame in which a single wrist gave the fallback.
C4_Witness ==
    /\ last.pose # None
    /\ \A j \in {"left_wrist", "right_wrist", "left_elbow", "right_elbow"} :
          last.pose[j].visibility = VisibilityThreshold
    /\ last.point # None /\ last.point.source = "forearm_extended"
    /\ \E i \in 1..Len(trajectory) : trajectory[i].source = "wrist_fallback"

\* C5: while the smoothing state is uninitialised no BarPoint has been emitted:
\* a frame without a raw candidate that finds no history emits nothing.
C5_NothingBeforeFirstCandidate ==
    /\ smoothed_position = None => trajectory = <<>>
    /\ (last.pose # None /\ last.before = None /\ last.raw = None) => last.point = None
    /\ \A i \in 1..Len(trajectory) : trajectory[i].source # "lost"

\* C5 witness: two frames without a candidate at the start of the video, then
\* a first candidate and its point.
C5_Witness ==
    /\ frame >= 3
    /\ Len(trajectory) = 1
    /\ trajectory[1].frame = 2

(***************************************************************************)
(* Properties of the aggregator (specification SpecAgg)                    *)
(***************************************************************************)
DistinctFrames(traj) == { traj[i].frame : i \in 1..Len(traj) }

\* C6: every velocity sample has vertical_velocity = -vy, and for the
\* synthetic descent (y strictly decreasing from 100 to 0 over 10 consecutive
\* frames at fps = 10) every vertical_velocity is positive.
C6_VerticalVelocityIsMinusVy ==
    metrics # None =>
        LET v == metrics.frame_velocities IN
        /\ \A i \in 1..Len(v) :
              /\ v[i].vertical_velocity.den = v[i].vy.den
              /\ v[i].vertical_velocity.num = -(v[i].vy.num)
        /\ IsDescent(agg_traj) =>
              /\ Len(v) = Descent.frames - 1
              /\ \A i \in 1..Len(v) :
                    v[i].vertical_velocity.num > 0 /\ v[i].vertical_velocity.den > 0

\* C6 witness: the metrics of a complete synthetic descent.
C6_Witness ==
    /\ metrics # None
    /\ fps = 10
    /\ IsDescent(agg_traj)
    /\ Len(agg_traj) = 10 /\ agg_traj[1].y = 100 /\ agg_traj[10].y = 0
    /\ Len(metrics.frame_velocities) = 9

\* Every sample comes from a pair of points whose frames differ, and was
\* computed without dividing by zero.
NoSampleDividesByZero ==
    \A i \in 1..Len(metrics.frame_velocities) :
        LET smp == metrics.frame_velocities[i] IN
        /\ smp.vx.den > 0 /\ smp.vy.den > 0
        /\ smp.vertical_velocity.den > 0 /\ smp.speed_sq.den > 0
        /\ \E j \in 1..Len(agg_traj) : agg_traj[j].frame < smp.frame

\* C7 (as stated): for any trajectory the number of velocity samples is the
\* number of distinct frame values minus one, and no sample divides by dt <= 0.
C7_SamplesForAnyTrajectory ==
    metrics # None =>
        /\ Len(metrics.frame_velocities) = Cardinality(DistinctFrames(agg_traj)) - 1
        /\ NoSampleDividesByZero

\* C7 (amended): for any non-empty trajectory the number of velocity samples
\* is the number of distinct frame values minus one (for the empty trajectory
\* it is 0), and no sample divides by dt <= 0.
C7_SamplesForNonEmptyTrajectory ==
    metrics # None =>
        /\ agg_traj # <<>> =>
              Len(metrics.frame_velocities) = Cardinality(DistinctFrames(agg_traj)) - 1
        /\ agg_traj = <<>> => metrics.frame_velocities = <<>>
        /\ NoSampleDividesByZero

\* C7 witness: a trajectory with a duplicated frame, handed over out of
\* order, that still yields a sample.
C7_Witness ==
    /\ metrics # None
    /\ Len(agg_traj) = 3
    /\ Cardinality(DistinctFrames(agg_traj)) = 2
    /\ agg_traj[1].frame > agg_traj[2].frame
    /\ Len(metrics.frame_velocities) = 1

\* The largest dy/dt among the samples.
MaxDownwardVelocity ==
    FracMax([i \in 1..Len(metrics.frame_velocities) |-> metrics.frame_velocities[i].vy])

\* C8: for every non-empty sample sequence peak_eccentric_velocity is the
\* largest downward velocity, max(dy/dt), also when the bar never moves down.
C8_PeakEccentricIsMaxDownward ==
    (metrics # None /\ metrics.frame_velocities # <<>>) =>
        metrics.peak_eccentric_velocity = MaxDownwardVelocity

(***************************************************************************)
(* Properties of the rep counter (specification SpecReps)                  *)
(***************************************************************************)
PassesGuard(ys) ==
    Len(ys) >= 10 /\ Max(ys) - Min(ys) >= 50

\* ys is a run of 100, a run of 0, a run of 100 and a run of 0: it starts at
\* 100, holds only 100 and 0, and changes value exactly three times.
IsTwoCycles(ys) ==
    /\ ys # <<>>
    /\ ys[1] = 100
    /\ \A i \in 1..Len(ys) : ys[i] \in {0, 100}
    /\ Cardinality({ i \in 2..Len(ys) : ys[i] # ys[i - 1] }) = 3

\* C9: a y-sequence of at least 10 samples made of two cycles
\* [100.., 0.., 100.., 0..] is counted as 2 reps.
C9_TwoCyclesGiveTwoReps ==
    (reps # None /\ Len(y_positions) >= 10 /\ IsTwoCycles(y_positions)) => reps[1] = 2

\* C9 witness: such a sequence has been counted.
C9_Witness ==
    /\ reps # None
    /\ Len(y_positions) >= 10
    /\ IsTwoCycles(y_positions)
    /\ y_positions[2] = 100 /\ y_positions[Len(y_positions) - 1] = 0

\* The indices i at which the bar rises past the midline: y[i-1] > mid_y and
\* y[i] <= mid_y, mid_y = (min + max) / 2; and those at which it sinks below it.
UpCrossings(ys) ==
    LET lo == Min(ys)  hi == Max(ys) IN
    { i \in 2..Len(ys) : 2 * ys[i - 1] > lo + hi /\ 2 * ys[i] <= lo + hi }

DownCrossings(ys) ==
    LET lo == Min(ys)  hi == Max(ys) IN
    { i \in 2..Len(ys) : 2 * ys[i - 1] <= lo + hi /\ 2 * ys[i] > lo + hi }

C11_GuardReturnsZero ==
    reps # None =>
        /\ Len(y_positions) < 10 => reps[1] = 0
        /\ (y_positions # <<>> /\ Max(y_positions) - Min(y_positions) < 50) => reps[1] = 0

\* C11 witness: nine samples spanning 120 px, with a rise past the midline,
\* counted as no rep.
C11_Witness ==
    /\ reps = <<0>>
    /\ Len(y_positions) = 9
    /\ Max(y_positions) - Min(y_positions) > 100
    /\ UpCrossings(y_positions) # {}

\* C12: for a y-sequence of at least 10 samples without a rise past the
\* midline the count is 1 if the displacement exceeds 100 px and 0 if it is
\* between 50 px and 100 px inclusive; a sequence with such rises is counted
\* as the number of them, whatever its displacement.
C12_FallbackOnlyWithoutCrossing ==
    (reps # None /\ Len(y_positions) >= 10) =>
        LET d == Max(y_positions) - Min(y_positions)
            ups == UpCrossings(y_positions)
        IN  /\ (ups = {} /\ d > 100) => reps[1] = 1
            /\ (ups = {} /\ d >= 50 /\ d <= 100) => reps[1] = 0
            /\ (ups # {} /\ d >= 50) => reps[1] = Cardinality(ups)

\* C12 witness: ten samples that only sink, by 120 px, counted as one rep.
C12_Witness ==
    /\ reps = <<1>>
    /\ Len(y_positions) >= 10
    /\ Max(y_positions) - Min(y_positions) > 100
    /\ UpCrossings(y_positions) = {}
    /\ DownCrossings(y_positions) # {}

(***************************************************************************)
(* Properties of the output metrics (specification SpecAgg)                *)
(***************************************************************************)
XsOf(traj) == [i \in 1..Len(traj) |-> traj[i].x]
YsOf(traj) == [i \in 1..Len(traj) |-> traj[i].y]

C14_NoneIffLowVisibility ==
    angle_result # <<>> =>
        LET r == angle_result[1]
            low == \E i \in 1..3 :
                      \/ "visibility" \notin DOMAIN angle_args[i]
                      \/ angle_args[i].visibility < 30
        IN  /\ low => r.kind = "None"
            /\ ~low => /\ r.kind = "number"
                        /\ 0 <= r.lo /\ r.lo <= r.hi /\ r.hi <= 180

\* C14 witness: three landmarks exactly at the threshold, the first on the
\* vertex: a number is returned.
C14_Witness ==
    /\ angle_result # <<>>
    /\ \A i \in 1..3 : "visibility" \in DOMAIN angle_args[i] /\ angle_args[i].visibility = 30
    /\ angle_args[1].x = angle_args[2].x /\ angle_args[1].y = angle_args[2].y
    /\ angle_result[1].kind = "number"

RECURSIVE Alone(_, _)
Alone(fed, n) ==
    IF n = 0 THEN [smoothed_position |-> None, trajectory |-> <<>>]
    ELSE LET prev == Alone(fed, n - 1)
             det == DetectBarbell(fed[n].pose, prev.smoothed_position, fed[n].hold)
         IN  [smoothed_position |-> det.smoothed,
              trajectory |-> AppendPoint(prev.trajectory, det.point, n - 1)]

\* C17: however the per-frame steps of two videos interleave, one after the
\* other included, the smoothing state, the trajectory and the metrics of
\* each video are those of that video processed alone.
C17_VideosDoNotInterfere ==
    \A v \in {1, 2} :
        LET alone == Alone(pair[v].fed, Len(pair[v].fed)) IN
        /\ pair[v].smoothed_position = alone.smoothed_position
        /\ pair[v].trajectory = alone.trajectory
        /\ pair[v].metrics # <<>> =>
              pair[v].metrics[1] = TrajectoryMetrics(alone.trajectory)

\* C17 witness: both videos done, their frames interleaved in time or not,
\* the first video high in the frame and the second low, each with a
\* trajectory of its own.
C17_Witness ==
    /\ \A v \in {1, 2} : pair[v].metrics # <<>> /\ Len(pair[v].trajectory) = 2
    /\ pair[1].trajectory[2].y < 100 * Scale
    /\ pair[2].trajectory[2].y > 800 * Scale

(***************************************************************************)
(* Properties of the video detail page (specification SpecPage)            *)
(***************************************************************************)
\* C18: the ['video'] query is on its 2000 ms refetch interval exactly while
\* the status last fetched is 'processing': any other fetched status stops
\* the interval, 'processing' fetched again starts it again, and a fetch
\* started by the interval is in flight only over a status of 'processing'.
C18_PollsExactlyWhileProcessing ==
    /\ poll_timer = PollMs <=> video_data = "processing"
    /\ poll_timer \in {0, PollMs}
    /\ video_fetch = "interval" => video_data = "processing"

\* C18 witness: the page saw the video fail and polling stop, Retry started a
\* second run, and the page polls again over the status 'processing'.
C18_Witness ==
    /\ Len(observed) >= 3
    /\ observed[Len(observed) - 1] = "failed"
    /\ observed[Len(observed)] = "processing"
    /\ video_fetch = "interval"
    /\ poll_timer = PollMs

\* The completions of processing the page has seen while open: the renders
\* of 'completed' after a render of another status.
CompletionsObserved ==
    Cardinality({i \in 2..Len(observed) : observed[i] = "completed"})

\* C19: whatever sequence of statuses the page observes, each completion of
\* processing seen while the page is open has invalidated the
\* 'detection-results' and 'tracking-session' queries exactly once.
C19_EveryCompletionInvalidatesOnce ==
    invalidations = CompletionsObserved

\* The process requests sent and not yet answered to the page.
InFlight == req_sent + Len(responses)

\* C20: at most one process request of the video is in flight at any time,
\* and no click on Quick Start, Retry or Start Processing sends a request
\* while the video's status is 'processing'.
C20_OneProcessRequestAtATime ==
    /\ [](InFlight <= 1)
    /\ [][req_total' > req_total => db_status # "processing"]_vars

\* C21: the 'detection-results' and 'tracking-session' queries are fetched,
\* and hold data, only while the status last observed is 'completed': never
\* while it is pending, processing or failed, or before the first fetch.
C21_DependentsOnlyWhenCompleted ==
    (dep_fetch \/ dep_data # "none") => video_data = "completed"

\* C21 witness: the page watched a run from pending through processing to
\* completed, invalidated the dependent queries and then loaded the results.
C21_Witness ==
    /\ observed = <<"pending", "processing", "completed">>
    /\ invalidations = 1
    /\ ~dep_fetch /\ dep_data = "results"

\* C25: in every combination of video status and showCalibration the user
\* can reach, the page renders the video viewer or the calibration step; a
\* completed video on which Reprocess was clicked shows the calibration step.
C25_ViewerOrCalibrationRendered ==
    video_data # "undefined" =>
        \/ ViewerRendered(page_version, video_data, show_calibration)
        \/ CalibrationRendered(video_data, show_calibration)

(***************************************************************************)
(* Properties of the video player (specification SpecPlayer)               *)
(***************************************************************************)
\* C22: while the video plays, the rafLoop of the attached effect run is
\* scheduled for the next animation frame, so that onTimeUpdate is called
\* with the current time on every frame: after every sequence of play,
\* pause, seek and ended, and after every re-run of the effect.
C22_RafLoopRunsWhilePlaying ==
    ~paused => animationFrameId = effect_run

(***************************************************************************)
(* Properties of the processed video viewer (specification SpecViewer)     *)
(***************************************************************************)
\* C26: once the user has clicked a view-mode button the viewer shows the
\* mode of the last click, until the next click, with or without a
\* pre-rendered overlay video.
C26_ViewerShowsClickedMode ==
    clicked # <<>> => view_mode = clicked[Len(clicked)]

(***************************************************************************)
(* Properties of the calibration step (specification SpecCalibration)      *)
(***************************************************************************)
\* C23: once the calibration request has failed and settled, the step shows
\* the 'Analysis Failed' view, never the 'Analyzing Video' spinner.
C23_FailedRequestShowsFailedView ==
    (cal_error /\ ~cal_fetching) => CalView = "failed"

(***************************************************************************)
(* Properties of the weight detection modal (specification SpecModal)      *)
(***************************************************************************)
\* C24: a detection run has no effect once the modal was closed or the
\* videoId changed: a closed modal has step 'extracting' and no result,
\* onDetectionComplete is called only while the modal is open, for a run of
\* the current opening and video, and an open modal shows only the result of
\* a run of its current opening and video.
C24_NoEffectAfterClose ==
    /\ ~modal_open => (step = "extracting" /\ result = <<>>)
    /\ \A n \in 1..Len(notified) :
          /\ notified[n].open
          /\ detections[notified[n].run].session = notified[n].session
          /\ detections[notified[n].run].video = notified[n].video
    /\ (modal_open /\ result # <<>>) =>
          /\ detections[result[1].run].session = session
          /\ detections[result[1].run].video = modal_video

(***************************************************************************)
(* Properties of the video upload (specification SpecUpload)               *)
(***************************************************************************)
\* C27: a videos row is inserted only after the storage upload of its file
\* succeeded, every inserted row has status 'pending', the page of the
\* video is navigated to only after both steps succeeded, and a mutation
\* that failed in either step left no navigation and no selected file.
C27_RowAfterStorageThenNavigate ==
    /\ Len(rows) <= stored
    /\ mutation = "insert" => Len(rows) < stored
    /\ \A r \in 1..Len(rows) : rows[r] = "pending"
    /\ navigated <=> (Len(rows) = 1 /\ mutation = "success")
    /\ (settled # <<>> /\ ~settled[1].ok) =>
          (~settled[1].navigated /\ ~settled[1].file)

\* C27 witness: a first upload failed at the insert, after its file was
\* stored, and cleared the file; the second upload stored its file, inserted
\* its row and navigated.
C27_Witness ==
    /\ attempts = 2 /\ stored = 2
    /\ rows = <<"pending">>
    /\ navigated
    /\ settled[1].ok

\* C28: while an upload is pending no second upload can be started and the
\* file cannot be cleared, and the simulated progress is at most 90; once the
\* mutation has settled the progress interval is cleared; a failed upload
\* leaves the component with no file and progress 0.
C28_PendingUploadIsExclusive ==
    /\ IsPending => (file /\ ~ENABLED HandleUpload /\ ~ENABLED ClearFile)
    /\ IsPending => uploadProgress <= ProgressCap
    /\ ~IsPending => ~interval
    /\ (settled # <<>> /\ ~settled[1].ok) =>
          (~settled[1].file /\ settled[1].progress = 0)

====
